---- MODULE Spec2Model ----
(***************************************************************************)
(* A model of pkg/network/ebpf/c/co-re/tracer-fentry.c: the fentry/kprobe  *)
(* programs of the network tracer, the maps they share and the tuple       *)
(* resolution from flow descriptors.                                       *)
(*                                                                         *)
(* Representation of machine values                                        *)
(*   - a u64 is a sequence of four 16-bit limbs, least significant first;  *)
(*   - an in6_addr is its 16 bytes in memory order, an IPv4 address its 4  *)
(*     bytes in memory order (network byte order);                         *)
(*   - a u16 is an integer 0..65535;                                       *)
(*   - a pid_tgid is the pair <<tgid, pid>>: pid_tgid >> 32 is its first   *)
(*     component;                                                          *)
(*   - the target is little-endian (x86-64, arm64).                        *)
(***************************************************************************)
EXTENDS Integers, Sequences, FiniteSets, TLC

VARIABLES
    \* ---- flow-descriptor resolution, applied as a pure function
    rt,                  \* the conn_tuple_t handed to the function
    rfl,                 \* the flow descriptor handed to it (flowi4 or flowi6)
    rres,                \* its result: [ret, t], or NoResult before the call
    \* ---- UDP send bridge
    udp_send_skb_args,   \* BPF_PERCPU_HASH_MAP: key -> [cpu -> conn_tuple_t]
    udp_send_missed,     \* telemetry counter
    staged,              \* history: the tuple last staged under each key
    orphan,              \* history: the entry of the key was staged by a
                         \* udp_send_skb that no udp_sendmsg call encloses
    \* ---- descriptor index and active opens
    sock_by_pid_fd,      \* BPF hash: pid_fd_t -> struct sock *
    pid_fd_by_sock,      \* BPF hash: struct sock * -> pid_fd_t
    tcp_ongoing_connect_pid, \* BPF hash: struct sock * -> pid_tgid
    last_resolved,       \* history: the socket sockfd_lookup_light last
                         \* returned for each pid_fd_t
    connecting,          \* history: the thread whose tcp_connect on the
                         \* socket no completion or close has followed
    \* ---- port bindings
    port_bindings,       \* BPF hash: the port_binding_t keys it holds (TCP)
    udp_port_bindings,   \* BPF hash: the port_binding_t keys it holds (UDP)
    udp_owners,          \* history: the live datagram sockets whose port
                         \* a bind exit added to udp_port_bindings
    \* ---- what the last program run did
    ev,                  \* the program that ran last
    out                  \* the calls it made to the backend, in order

vars ==
    <<rt, rfl, rres, udp_send_skb_args, udp_send_missed, staged, orphan,
      sock_by_pid_fd, pid_fd_by_sock, tcp_ongoing_connect_pid, last_resolved,
      connecting, port_bindings, udp_port_bindings, udp_owners, ev, out>>

resolveVars == <<rt, rfl, rres>>
udpVars == <<udp_send_skb_args, udp_send_missed, staged, orphan>>
fdVars ==
    <<sock_by_pid_fd, pid_fd_by_sock, tcp_ongoing_connect_pid, last_resolved, connecting>>
bindVars == <<port_bindings, udp_port_bindings, udp_owners>>

-----------------------------------------------------------------------------
(* Machine words *)

Zero64 == <<0, 0, 0, 0>>

\* (u32)x, zero-extended back to 64 bits
U32(x) == <<x[1], x[2], 0, 0>>

\* x >> 32
Shr32(x) == <<x[3], x[4], 0, 0>>

\* a little-endian 16-bit load of two bytes
LE16(b0, b1) == b0 + 256 * b1

\* a little-endian 64-bit load of the 8 bytes of b starting at index i
LE64(b, i) ==
    <<LE16(b[i], b[i+1]), LE16(b[i+2], b[i+3]),
      LE16(b[i+4], b[i+5]), LE16(b[i+6], b[i+7])>>

\* a __be32 read as it lies in memory and widened to u64
Be32Raw(ip) == <<LE16(ip[1], ip[2]), LE16(ip[3], ip[4]), 0, 0>>

\* a __be16 holding port p, read as it lies in memory on a little-endian host
Be16Raw(p) == (p % 256) * 256 + (p \div 256)

bpf_ntohs(x) == (x % 256) * 256 + (x \div 256)

-----------------------------------------------------------------------------
(* conn_tuple_t *)

CONN_TYPE_UDP == "CONN_TYPE_UDP"
CONN_TYPE_TCP == "CONN_TYPE_TCP"

\* t->metadata = type: the family bit is clear, which reads as CONN_V4
MetadataOf(type) == [type |-> type, v6 |-> FALSE]

\* t->metadata |= CONN_V6
OrConnV6(m) == [m EXCEPT !.v6 = TRUE]

\* t->metadata |= CONN_V4: CONN_V4 is the zero mask
OrConnV4(m) == m

ZeroTuple ==
    [pid |-> 0, metadata |-> MetadataOf(CONN_TYPE_UDP),
     saddr_h |-> Zero64, saddr_l |-> Zero64,
     daddr_h |-> Zero64, daddr_l |-> Zero64,
     sport |-> 0, dport |-> 0, netns |-> 0]

-----------------------------------------------------------------------------
(* ipv6.h *)

read_in6_addr(in6) == [h |-> LE64(in6, 1), l |-> LE64(in6, 9)]

\* one address is IPv4-mapped: ::ffff:a.b.c.d
addr_is_ipv4_mapped(h, l) == h = Zero64 /\ l[1] = 0 /\ l[2] = 65535

is_ipv4_mapped_ipv6(saddr_h, saddr_l, daddr_h, daddr_l) ==
    /\ addr_is_ipv4_mapped(saddr_h, saddr_l)
    /\ addr_is_ipv4_mapped(daddr_h, daddr_l)

-----------------------------------------------------------------------------
(* read_conn_tuple_partial_from_flowi4 *)

\* lines 24-25 and 57-58
tuple_begin(t, pid_tgid, type) ==
    [t EXCEPT !.pid = pid_tgid[1], !.metadata = MetadataOf(type)]

\* lines 27-29
flowi4_merge_saddr(t, fl4) ==
    IF t.saddr_l = Zero64 THEN [t EXCEPT !.saddr_l = Be32Raw(fl4.saddr)] ELSE t

\* lines 30-32
flowi4_merge_daddr(t, fl4) ==
    IF t.daddr_l = Zero64 THEN [t EXCEPT !.daddr_l = Be32Raw(fl4.daddr)] ELSE t

flowi4_merge_addrs(t, fl4) ==
    flowi4_merge_daddr(flowi4_merge_saddr(t, fl4), fl4)

\* lines 39-42 and 89-92
flowi_merge_sport(t, fl_sport) ==
    IF t.sport = 0 THEN [t EXCEPT !.sport = bpf_ntohs(fl_sport)] ELSE t

\* lines 43-46 and 93-96
flowi_merge_dport(t, fl_dport) ==
    IF t.dport = 0 THEN [t EXCEPT !.dport = bpf_ntohs(fl_dport)] ELSE t

flowi_merge_ports(t, fl_sport, fl_dport) ==
    flowi_merge_dport(flowi_merge_sport(t, fl_sport), fl_dport)

\* lines 48-53 and 98-104
flowi_check_ports(t) ==
    [ret |-> IF t.sport = 0 \/ t.dport = 0 THEN 0 ELSE 1, t |-> t]

\* lines 34-53, on the tuple t with its addresses merged
flowi4_check(t, fl4) ==
    IF t.saddr_l = Zero64 \/ t.daddr_l = Zero64
    THEN [ret |-> 0, t |-> t]
    ELSE flowi_check_ports(flowi_merge_ports(t, fl4.fl4_sport, fl4.fl4_dport))

read_conn_tuple_partial_from_flowi4(t, fl4, pid_tgid, type) ==
    flowi4_check(flowi4_merge_addrs(tuple_begin(t, pid_tgid, type), fl4), fl4)

-----------------------------------------------------------------------------
(* read_conn_tuple_partial_from_flowi6 *)

\* read_in6_addr(&t->saddr_h, &t->saddr_l, &addr)
set_saddr(t, a) == [t EXCEPT !.saddr_h = a.h, !.saddr_l = a.l]

\* read_in6_addr(&t->daddr_h, &t->daddr_l, &addr)
set_daddr(t, a) == [t EXCEPT !.daddr_h = a.h, !.daddr_l = a.l]

\* lines 60-63
flowi6_merge_saddr(t, fl6) ==
    IF t.saddr_l = Zero64 \/ t.saddr_h = Zero64
    THEN set_saddr(t, read_in6_addr(fl6.saddr)) ELSE t

\* lines 64-67
flowi6_merge_daddr(t, fl6) ==
    IF t.daddr_l = Zero64 \/ t.daddr_h = Zero64
    THEN set_daddr(t, read_in6_addr(fl6.daddr)) ELSE t

flowi6_merge_addrs(t, fl6) ==
    flowi6_merge_daddr(flowi6_merge_saddr(t, fl6), fl6)

\* the collapse without the shift that brings the embedded IPv4 address down
flowi6_collapse_noshift(t) ==
    IF is_ipv4_mapped_ipv6(t.saddr_h, t.saddr_l, t.daddr_h, t.daddr_l)
    THEN [t EXCEPT !.metadata = OrConnV4(@),
                   !.saddr_h = Zero64, !.daddr_h = Zero64,
                   !.saddr_l = U32(@), !.daddr_l = U32(@)]
    ELSE [t EXCEPT !.metadata = OrConnV6(@)]

\* lines 78-87
flowi6_collapse(t) ==
    IF is_ipv4_mapped_ipv6(t.saddr_h, t.saddr_l, t.daddr_h, t.daddr_l)
    THEN [t EXCEPT !.metadata = OrConnV4(@),
                   !.saddr_h = Zero64, !.daddr_h = Zero64,
                   !.saddr_l = U32(Shr32(@)), !.daddr_l = U32(Shr32(@))]
    ELSE [t EXCEPT !.metadata = OrConnV6(@)]

\* lines 69-104, on the tuple t with its addresses merged
flowi6_check(t, fl6) ==
    IF t.saddr_h = Zero64 /\ t.saddr_l = Zero64
    THEN [ret |-> 0, t |-> t]
    ELSE IF t.daddr_h = Zero64 /\ t.daddr_l = Zero64
    THEN [ret |-> 0, t |-> t]
    ELSE flowi_check_ports(
            flowi_merge_ports(flowi6_collapse(t), fl6.fl6_sport, fl6.fl6_dport))

read_conn_tuple_partial_from_flowi6(t, fl6, pid_tgid, type) ==
    flowi6_check(flowi6_merge_addrs(tuple_begin(t, pid_tgid, type), fl6), fl6)

-----------------------------------------------------------------------------
(* Sample addresses, ports, flow descriptors and tuples *)

IP4_ANY == <<0, 0, 0, 0>>
IP4_A == <<10, 0, 0, 1>>
IP4_B == <<10, 0, 0, 2>>

\* ::ffff:a.b.c.d
In6Mapped(ip) == <<0, 0, 0, 0, 0, 0, 0, 0, 0, 0, 255, 255>> \o ip

IN6_ANY == <<0, 0, 0, 0, 0, 0, 0, 0, 0, 0, 0, 0, 0, 0, 0, 0>>
\* 2001:db8::1 and 2001:db8::2
IN6_A == <<32, 1, 13, 184, 0, 0, 0, 0, 0, 0, 0, 0, 0, 0, 0, 1>>
IN6_B == <<32, 1, 13, 184, 0, 0, 0, 0, 0, 0, 0, 0, 0, 0, 0, 2>>
\* ::1, whose high half is zero, and 2001:db8::, whose low half is zero
IN6_LOOPBACK == <<0, 0, 0, 0, 0, 0, 0, 0, 0, 0, 0, 0, 0, 0, 0, 1>>
IN6_NET == <<32, 1, 13, 184, 0, 0, 0, 0, 0, 0, 0, 0, 0, 0, 0, 0>>

Ip4Addrs == {IP4_ANY, IP4_A, IP4_B}

In6Addrs ==
    {IN6_ANY, IN6_A, IN6_B, IN6_LOOPBACK, IN6_NET,
     In6Mapped(IP4_A), In6Mapped(IP4_B), In6Mapped(IP4_ANY)}

\* host-order port numbers; a flow descriptor holds them as __be16
Ports == {0, 5000, 8080}

Flowi4s ==
    [kind : {"flowi4"}, saddr : Ip4Addrs, daddr : Ip4Addrs,
     fl4_sport : {Be16Raw(p) : p \in Ports},
     fl4_dport : {Be16Raw(p) : p \in Ports}]

Flowi6s ==
    [kind : {"flowi6"}, saddr : In6Addrs, daddr : In6Addrs,
     fl6_sport : {Be16Raw(p) : p \in {0, 5000}},
     fl6_dport : {Be16Raw(p) : p \in {0, 8080}}]

\* the address halves a tuple may hold when resolution starts: unset, one half
\* set, both set, an IPv4 address, an IPv4-mapped address
AddrHalves ==
    {[h |-> Zero64, l |-> Zero64],
     read_in6_addr(IN6_B), read_in6_addr(IN6_LOOPBACK), read_in6_addr(IN6_NET),
     [h |-> Zero64, l |-> Be32Raw(IP4_B)],
     read_in6_addr(In6Mapped(IP4_B))}

TupleInputs ==
    {[ZeroTuple EXCEPT !.saddr_h = s.h, !.saddr_l = s.l,
                       !.daddr_h = d.h, !.daddr_l = d.l,
                       !.sport = sp, !.dport = dp] :
        s \in AddrHalves, d \in AddrHalves, sp \in {0, 53}, dp \in {0, 53}}

NoResult == [ret |-> -1]

-----------------------------------------------------------------------------
(* Flow-descriptor resolution applied to every sample input *)

ResolveFlowi4 ==
    /\ rres = NoResult
    /\ rfl.kind = "flowi4"
    /\ rres' = read_conn_tuple_partial_from_flowi4(rt, rfl, <<100, 101>>, CONN_TYPE_UDP)
    /\ ev' = [name |-> "read_conn_tuple_partial_from_flowi4"]
    /\ UNCHANGED <<rt, rfl, udpVars, fdVars, bindVars, out>>

ResolveFlowi6 ==
    /\ rres = NoResult
    /\ rfl.kind = "flowi6"
    /\ rres' = read_conn_tuple_partial_from_flowi6(rt, rfl, <<100, 101>>, CONN_TYPE_UDP)
    /\ ev' = [name |-> "read_conn_tuple_partial_from_flowi6"]
    /\ UNCHANGED <<rt, rfl, udpVars, fdVars, bindVars, out>>

-----------------------------------------------------------------------------
(* Sockets: what the kernel's struct sock holds when a program reads it *)

AF_UNIX == "AF_UNIX"
AF_INET == "AF_INET"
AF_INET6 == "AF_INET6"

\* enum sock_type
SOCK_STREAM == 1
SOCK_DGRAM == 2

\* ops is FALSE for a struct socket whose ops pointer is NULL
Sock(family, type, saddr, sk_num, daddr, dport, netns) ==
    [family |-> family, type |-> type, saddr |-> saddr, sk_num |-> sk_num,
     daddr |-> daddr, dport |-> dport, netns |-> netns, ops |-> TRUE]

\* the UDP sockets of the model, by identity
UdpSockTable ==
    [udp_conn4   |-> Sock(AF_INET, SOCK_DGRAM, IP4_A, 5000, IP4_B, 8080, 7),
     udp_unconn4 |-> Sock(AF_INET, SOCK_DGRAM, IP4_ANY, 5000, IP4_ANY, 0, 7)]

\* further sockets that bind and are destroyed: a bound one in another
\* namespace, one with no local port, a raw one (type 3) and a seqpacket
\* one (type 5)
BindSockTable ==
    [udp_ns8     |-> Sock(AF_INET, SOCK_DGRAM, IP4_ANY, 5000, IP4_ANY, 0, 8),
     udp_unbound |-> Sock(AF_INET, SOCK_DGRAM, IP4_ANY, 0, IP4_ANY, 0, 7),
     raw_s       |-> Sock(AF_INET, 3, IP4_ANY, 17, IP4_ANY, 0, 7),
     seqpacket_s |-> Sock(AF_INET, 5, IP4_ANY, 132, IP4_ANY, 0, 7),
     tcp_unbound |-> Sock(AF_INET, SOCK_STREAM, IP4_ANY, 0, IP4_ANY, 0, 7)]

UdpSocks == DOMAIN UdpSockTable

\* the stream sockets of the model: two connected ones, a listening one
\* (no peer, so no tuple resolves from it), one of another family and one
\* whose struct socket has no ops
TcpSockTable ==
    [tcp_a      |-> Sock(AF_INET, SOCK_STREAM, IP4_A, 8080, IP4_B, 5000, 7),
     tcp_b      |-> Sock(AF_INET6, SOCK_STREAM, IN6_A, 8080, IN6_B, 5000, 8),
     tcp_listen |-> Sock(AF_INET, SOCK_STREAM, IP4_ANY, 8080, IP4_ANY, 0, 7),
     unix_s     |-> Sock(AF_UNIX, SOCK_STREAM, IP4_ANY, 0, IP4_ANY, 0, 7),
     noops_s    |-> [Sock(AF_INET, SOCK_STREAM, IP4_A, 8080, IP4_B, 5000, 7)
                        EXCEPT !.ops = FALSE]]

TcpSocks == {"tcp_a", "tcp_listen"}

SockTable ==
    [sk \in DOMAIN UdpSockTable \cup DOMAIN TcpSockTable \cup DOMAIN BindSockTable |->
        IF sk \in DOMAIN UdpSockTable THEN UdpSockTable[sk]
        ELSE IF sk \in DOMAIN TcpSockTable THEN TcpSockTable[sk]
        ELSE BindSockTable[sk]]

sock_attr(sk) == SockTable[sk]

(* sock.h *)

get_netns_from_sock(sk) == sock_attr(sk).netns

read_sport(sk) == sock_attr(sk).sk_num

read_dport(sk) == sock_attr(sk).dport

\* the addresses of an AF_INET socket fill the low halves that are unset
sock_merge_addrs_v4(t, a) ==
    flowi4_merge_daddr(flowi4_merge_saddr(t, a), a)

sock_merge_saddr_v6(t, a) ==
    IF t.saddr_h = Zero64 /\ t.saddr_l = Zero64
    THEN set_saddr(t, read_in6_addr(a.saddr)) ELSE t

sock_merge_daddr_v6(t, a) ==
    IF t.daddr_h = Zero64 /\ t.daddr_l = Zero64
    THEN set_daddr(t, read_in6_addr(a.daddr)) ELSE t

\* the addresses of an AF_INET6 socket fill the addresses that are unset
sock_merge_addrs_v6(t, a) ==
    sock_merge_daddr_v6(sock_merge_saddr_v6(t, a), a)

sock_merge_sport(t, sk) ==
    IF t.sport = 0 THEN [t EXCEPT !.sport = read_sport(sk)] ELSE t

sock_merge_dport(t, sk) ==
    IF t.dport = 0 THEN [t EXCEPT !.dport = read_dport(sk)] ELSE t

sock_ports(t, sk) ==
    flowi_check_ports(sock_merge_dport(sock_merge_sport(t, sk), sk))

\* an address still zero fails the resolution; an IPv4-mapped pair collapses
sock_check_v4(t, sk) ==
    IF t.saddr_l = Zero64 \/ t.daddr_l = Zero64
    THEN [ret |-> 0, t |-> t]
    ELSE sock_ports(t, sk)

sock_check_v6(t, sk) ==
    IF \/ (t.saddr_h = Zero64 /\ t.saddr_l = Zero64)
       \/ (t.daddr_h = Zero64 /\ t.daddr_l = Zero64)
    THEN [ret |-> 0, t |-> t]
    ELSE sock_ports(flowi6_collapse(t), sk)

sock_begin(t, sk, pid_tgid, type) ==
    [t EXCEPT !.pid = pid_tgid[1], !.metadata = MetadataOf(type),
              !.netns = get_netns_from_sock(sk)]

read_conn_tuple_partial(t, sk, pid_tgid, type) ==
    IF sock_attr(sk).family = AF_INET
    THEN sock_check_v4(
            sock_merge_addrs_v4(sock_begin(t, sk, pid_tgid, type), sock_attr(sk)), sk)
    ELSE IF sock_attr(sk).family = AF_INET6
    THEN sock_check_v6(
            sock_merge_addrs_v6(sock_begin(t, sk, pid_tgid, type), sock_attr(sk)), sk)
    ELSE [ret |-> 0, t |-> sock_begin(t, sk, pid_tgid, type)]

\* a fresh tuple resolved from the socket alone
read_conn_tuple(sk, pid_tgid, type) ==
    read_conn_tuple_partial(ZeroTuple, sk, pid_tgid, type)

-----------------------------------------------------------------------------
(* Threads, CPUs and the per-CPU hash map *)

\* a thread may run each program on another CPU: the scheduler migrates it
Cpus == {0, 1}

\* <<tgid, pid>>: two threads of process 1, one of process 2
PidTgids == {<<1, 1>>, <<1, 2>>, <<2, 3>>}

\* max_entries of udp_send_skb_args (1024 in the source)
UdpArgsMaxEntries == 2

MaxMissed == 1

None == [none |-> TRUE]

\* bpf_map_lookup_elem on a per-CPU hash: the slot of the running CPU
percpu_lookup(map, key, cpu) ==
    IF key \in DOMAIN map THEN map[key][cpu] ELSE None

\* an update that takes a new element whatever the number of elements
percpu_update_unbounded(map, key, cpu, value) ==
    [k \in DOMAIN map \cup {key} |->
        IF k \in DOMAIN map
        THEN IF k = key THEN [map[k] EXCEPT ![cpu] = value] ELSE map[k]
        ELSE [c \in Cpus |-> IF c = cpu THEN value ELSE ZeroTuple]]

\* bpf_map_update_elem(BPF_ANY) from a program on a per-CPU hash: an existing
\* element has the running CPU's slot written; a new element is taken from
\* the free list if the map is not full, the running CPU's slot written and
\* the other CPUs' slots zero-filled
percpu_update(map, key, cpu, value) ==
    IF key \in DOMAIN map
    THEN [map EXCEPT ![key][cpu] = value]
    ELSE IF Cardinality(DOMAIN map) >= UdpArgsMaxEntries
    THEN map
    ELSE [k \in DOMAIN map \cup {key} |->
            IF k = key
            THEN [c \in Cpus |-> IF c = cpu THEN value ELSE ZeroTuple]
            ELSE map[k]]

\* a delete that frees nothing
map_delete_nothing(map, key) == map

\* bpf_map_delete_elem: the element, with every CPU's slot, is freed
map_delete(map, key) == [k \in DOMAIN map \ {key} |-> map[k]]

-----------------------------------------------------------------------------
(* Calls to the backend *)

handle_tcp_stats(t, sk, state) ==
    [call |-> "handle_tcp_stats", t |-> t, sk |-> sk, state |-> state]

cleanup_conn(t, sk) == [call |-> "cleanup_conn", t |-> t, sk |-> sk]

handle_message(t, sent_bytes, recv_bytes, direction, packets_out, packets_in, segs_type, sk) ==
    [call |-> "handle_message", t |-> t, sent_bytes |-> sent_bytes,
     recv_bytes |-> recv_bytes, direction |-> direction,
     packets_out |-> packets_out, packets_in |-> packets_in,
     segs_type |-> segs_type, sk |-> sk]

-----------------------------------------------------------------------------
(* UDP send: kprobe/udp_send_skb, kprobe/udp_v6_send_skb and the exits of  *)
(* udp_sendmsg and udpv6_sendmsg                                           *)

Sents == {-1, 0, 200}

UdpFlowi4s ==
    {[kind |-> "flowi4", saddr |-> IP4_A, daddr |-> IP4_B,
      fl4_sport |-> Be16Raw(5000), fl4_dport |-> Be16Raw(dp)] : dp \in {0, 53}}

UdpFlowi6s ==
    {[kind |-> "flowi6", saddr |-> IN6_A, daddr |-> IN6_B,
      fl6_sport |-> Be16Raw(5000), fl6_dport |-> Be16Raw(dp)] : dp \in {0, 53}}

\* udp_send_skb runs inside a udp_sendmsg call, whose exit follows, or, for
\* the first thread, from a path that has no udp_sendmsg exit
OutsideCall(pid_tgid) == IF pid_tgid = <<1, 1>> THEN BOOLEAN ELSE {FALSE}

\* lines 191-202 and 216-227: what both entry programs do with the outcome r
\* of the resolution
udp_send_skb_stage(name, pid_tgid, cpu, r) ==
    /\ IF r.ret # 0
       THEN /\ udp_send_skb_args' =
                    percpu_update(udp_send_skb_args, pid_tgid, cpu, r.t)
            /\ staged' = IF pid_tgid \in DOMAIN udp_send_skb_args'
                         THEN [staged EXCEPT ![pid_tgid] = r.t]
                         ELSE staged
            /\ \E o \in OutsideCall(pid_tgid) :
                    orphan' = IF pid_tgid \in DOMAIN udp_send_skb_args'
                              THEN [orphan EXCEPT ![pid_tgid] = o]
                              ELSE orphan
            /\ UNCHANGED udp_send_missed
       ELSE /\ udp_send_missed < MaxMissed
            /\ udp_send_missed' = udp_send_missed + 1
            /\ UNCHANGED <<udp_send_skb_args, staged, orphan>>
    /\ ev' = [name |-> name, pid_tgid |-> pid_tgid, cpu |-> cpu]
    /\ out' = <<>>
    /\ UNCHANGED <<resolveVars, fdVars, bindVars>>

\* the flow descriptor is read first and the socket only if that fails
kprobe__udp_send_skb_flow_first(pid_tgid, cpu, sk, fl4) ==
    LET r1 == read_conn_tuple_partial_from_flowi4(ZeroTuple, fl4, pid_tgid, CONN_TYPE_UDP)
        r  == IF r1.ret # 0 THEN r1
              ELSE read_conn_tuple_partial(r1.t, sk, pid_tgid, CONN_TYPE_UDP)
    IN  udp_send_skb_stage("kprobe__udp_send_skb", pid_tgid, cpu, r)

kprobe__udp_send_skb(pid_tgid, cpu, sk, fl4) ==
    LET r1 == read_conn_tuple(sk, pid_tgid, CONN_TYPE_UDP)
        r  == IF r1.ret # 0 THEN r1
              ELSE read_conn_tuple_partial_from_flowi4(r1.t, fl4, pid_tgid, CONN_TYPE_UDP)
    IN  udp_send_skb_stage("kprobe__udp_send_skb", pid_tgid, cpu, r)

kprobe__udp_v6_send_skb(pid_tgid, cpu, sk, fl6) ==
    LET r1 == read_conn_tuple(sk, pid_tgid, CONN_TYPE_UDP)
        r  == IF r1.ret # 0 THEN r1
              ELSE read_conn_tuple_partial_from_flowi6(r1.t, fl6, pid_tgid, CONN_TYPE_UDP)
    IN  udp_send_skb_stage("kprobe__udp_v6_send_skb", pid_tgid, cpu, r)

handle_udp_send(pid_tgid, cpu, sk, sent) ==
    LET t == percpu_lookup(udp_send_skb_args, pid_tgid, cpu)
    IN  /\ IF t = None
           THEN /\ out' = <<>>
                /\ UNCHANGED udpVars
           ELSE /\ out' = IF sent > 0
                          THEN <<handle_message(t, sent, 0, "CONN_DIRECTION_UNKNOWN",
                                                1, 0, "PACKET_COUNT_NONE", sk)>>
                          ELSE <<>>
                /\ udp_send_skb_args' = map_delete(udp_send_skb_args, pid_tgid)
                /\ staged' = [staged EXCEPT ![pid_tgid] = None]
                /\ orphan' = [orphan EXCEPT ![pid_tgid] = FALSE]
                /\ UNCHANGED udp_send_missed
        /\ ev' = [name |-> "handle_udp_send", resolved |-> FALSE]
        /\ UNCHANGED <<resolveVars, fdVars, bindVars>>

udp_sendmsg_exit(pid_tgid, cpu, sk, sent) == handle_udp_send(pid_tgid, cpu, sk, sent)

udpv6_sendmsg_exit(pid_tgid, cpu, sk, sent) == handle_udp_send(pid_tgid, cpu, sk, sent)

-----------------------------------------------------------------------------
(* Plain BPF hash maps *)

\* max_entries of the maps declared in tracer-maps.h
MapMaxEntries == 2

\* bpf_map_update_elem(BPF_ANY): an existing key is overwritten; a new key is
\* inserted unless the map is full, in which case the update fails and the
\* map is left as it was
hash_update(map, key, value) ==
    IF key \in DOMAIN map \/ Cardinality(DOMAIN map) < MapMaxEntries
    THEN [k \in DOMAIN map \cup {key} |-> IF k = key THEN value ELSE map[k]]
    ELSE map

-----------------------------------------------------------------------------
(* Descriptor index: fexit/sockfd_lookup_light, fentry/tcp_close and       *)
(* fexit/do_sendfile; active opens: fentry/tcp_connect and                 *)
(* fentry/tcp_finish_connect                                               *)

\* the threads that run these programs, and the descriptors they use:
\* process 1 uses descriptors 3 and 4, process 2 descriptor 3
FdPidTgids == {<<1, 1>>, <<2, 3>>}
FdsOf(pid_tgid) == IF pid_tgid[1] = 1 THEN {3, 4} ELSE {3}
PidFds == {<<1, 3>>, <<1, 4>>, <<2, 3>>}

\* the sockets that connect, complete the handshake and close
ConnectSocks == {"tcp_a", "tcp_b", "tcp_listen"}

\* the struct socket a descriptor lookup may return, named by its sk
LookupSocks == {"tcp_a", "tcp_listen", "unix_s", "noops_s", "udp_conn4"}

\* sockfd.h
clear_sockfd_maps(sock_map, fd_map, sk) ==
    IF sk \notin DOMAIN fd_map
    THEN [sock_by_pid_fd |-> sock_map, pid_fd_by_sock |-> fd_map]
    ELSE [sock_by_pid_fd |-> map_delete(sock_map, fd_map[sk]),
          pid_fd_by_sock |-> map_delete(fd_map, sk)]

\* lines 494-503: the socket is one the index stores
sockfd_supported(socket) ==
    LET a == sock_attr(socket)
    IN  /\ a.ops
        /\ a.type = SOCK_STREAM
        /\ a.family \in {AF_INET, AF_INET6}

\* no key is taken for indexed
sockfd_indexed_never(map, key) == FALSE

\* lines 488-491: the index already has an entry for this pid_fd_t
sockfd_indexed(map, key) == key \in DOMAIN map

sockfd_lookup_light_exit(pid_tgid, fd, socket) ==
    LET key == <<pid_tgid[1], fd>>
    IN  /\ IF sockfd_indexed(sock_by_pid_fd, key) \/ ~sockfd_supported(socket)
           THEN UNCHANGED <<sock_by_pid_fd, pid_fd_by_sock>>
           ELSE /\ pid_fd_by_sock' = hash_update(pid_fd_by_sock, socket, key)
                /\ sock_by_pid_fd' = hash_update(sock_by_pid_fd, key, socket)
        /\ last_resolved' = IF sockfd_supported(socket)
                            THEN [last_resolved EXCEPT ![key] = socket]
                            ELSE last_resolved
        /\ ev' = [name |-> "sockfd_lookup_light_exit"]
        /\ out' = <<>>
        /\ UNCHANGED <<tcp_ongoing_connect_pid, connecting, resolveVars, udpVars, bindVars>>

tcp_close(pid_tgid, sk) ==
    LET cleared == clear_sockfd_maps(sock_by_pid_fd, pid_fd_by_sock, sk)
        r == read_conn_tuple(sk, pid_tgid, CONN_TYPE_TCP)
    IN  /\ tcp_ongoing_connect_pid' = map_delete(tcp_ongoing_connect_pid, sk)
        /\ sock_by_pid_fd' = cleared.sock_by_pid_fd
        /\ pid_fd_by_sock' = cleared.pid_fd_by_sock
        /\ out' = IF r.ret = 0 THEN <<>> ELSE <<cleanup_conn(r.t, sk)>>
        /\ connecting' = [connecting EXCEPT ![sk] = None]
        /\ ev' = [name |-> "tcp_close", sk |-> sk]
        /\ UNCHANGED <<last_resolved, resolveVars, udpVars, bindVars>>

do_sendfile_exit(pid_tgid, out_fd, sent) ==
    LET key == <<pid_tgid[1], out_fd>>
        sock == sock_by_pid_fd[key]
        r == read_conn_tuple(sock, pid_tgid, CONN_TYPE_TCP)
    IN  /\ out' = IF sent <= 0 \/ key \notin DOMAIN sock_by_pid_fd
                  THEN <<>>
                  ELSE IF r.ret = 0
                  THEN <<>>
                  ELSE <<handle_message(r.t, sent, 0, "CONN_DIRECTION_UNKNOWN",
                                        0, 0, "PACKET_COUNT_NONE", sock)>>
        /\ ev' = [name |-> "do_sendfile_exit", key |-> key,
                  resolved |-> sent > 0 /\ key \in DOMAIN sock_by_pid_fd]
        /\ UNCHANGED <<fdVars, resolveVars, udpVars, bindVars>>

tcp_connect(pid_tgid, sk) ==
    /\ tcp_ongoing_connect_pid' = hash_update(tcp_ongoing_connect_pid, sk, pid_tgid)
    /\ connecting' = [connecting EXCEPT ![sk] = pid_tgid]
    /\ ev' = [name |-> "tcp_connect", sk |-> sk]
    /\ out' = <<>>
    /\ UNCHANGED <<sock_by_pid_fd, pid_fd_by_sock, last_resolved,
                   resolveVars, udpVars, bindVars>>

\* the thread that runs the completion callback: none, in softirq
tcp_finish_connect_current(sk) == <<0, 0>>

\* line 322
tcp_finish_connect_pid_tgid(sk) == tcp_ongoing_connect_pid[sk]

tcp_finish_connect(sk) ==
    /\ IF sk \notin DOMAIN tcp_ongoing_connect_pid
       THEN /\ out' = <<>>
            /\ UNCHANGED tcp_ongoing_connect_pid
       ELSE LET pid_tgid == tcp_finish_connect_pid_tgid(sk)
                r == read_conn_tuple(sk, pid_tgid, CONN_TYPE_TCP)
            IN  /\ tcp_ongoing_connect_pid' = map_delete(tcp_ongoing_connect_pid, sk)
                /\ out' = IF r.ret = 0
                          THEN <<>>
                          ELSE <<handle_tcp_stats(r.t, sk, "TCP_ESTABLISHED"),
                                 handle_message(r.t, 0, 0, "CONN_DIRECTION_OUTGOING",
                                                0, 0, "PACKET_COUNT_NONE", sk)>>
    /\ connecting' = [connecting EXCEPT ![sk] = None]
    /\ ev' = [name |-> "tcp_finish_connect", sk |-> sk]
    /\ UNCHANGED <<sock_by_pid_fd, pid_fd_by_sock, last_resolved,
                   resolveVars, udpVars, bindVars>>

-----------------------------------------------------------------------------
(* Port bindings: fexit/inet_csk_accept, fentry/inet_csk_listen_stop,      *)
(* fentry/udp_destroy_sock and the exits of inet_bind and inet6_bind       *)

NULL == "NULL"

(* port.h: a binding set holds each port_binding_t once *)

add_port_bind(pb, map) ==
    IF pb \in map \/ Cardinality(map) < MapMaxEntries THEN map \cup {pb} ELSE map

remove_port_bind(pb, map) == map \ {pb}

\* the record of a binding event: the socket, the binding the handler
\* computed (None when it returned early) and whether the set held it
BindEvent(name, sk, pb, map) ==
    [name |-> name, sk |-> sk, pb |-> pb, found |-> pb \in map]

\* the port is held to be known
lport_unset_never(lport) == FALSE

\* lines 366, 394, 447: the port could not be determined
lport_unset(lport) == lport = 0

\* lines 355-357
inet_csk_accept_pb(t) == [netns |-> t.netns, port |-> t.sport]

inet_csk_accept_exit(pid_tgid, sk) ==
    /\ IF sk = NULL
       THEN /\ out' = <<>>
            /\ ev' = BindEvent("inet_csk_accept_exit", sk, None, port_bindings)
            /\ UNCHANGED port_bindings
       ELSE \E r \in {read_conn_tuple(sk, pid_tgid, CONN_TYPE_TCP)} :
            IF r.ret = 0
            THEN /\ out' = <<>>
                 /\ ev' = BindEvent("inet_csk_accept_exit", sk, None, port_bindings)
                 /\ UNCHANGED port_bindings
            ELSE /\ out' = <<handle_tcp_stats(r.t, sk, "TCP_ESTABLISHED"),
                            handle_message(r.t, 0, 0, "CONN_DIRECTION_INCOMING",
                                           0, 0, "PACKET_COUNT_NONE", sk)>>
                 /\ port_bindings' = add_port_bind(inet_csk_accept_pb(r.t), port_bindings)
                 /\ ev' = BindEvent("inet_csk_accept_exit", sk,
                                      inet_csk_accept_pb(r.t), port_bindings)
    /\ UNCHANGED <<udp_port_bindings, udp_owners, resolveVars, udpVars, fdVars>>

\* the binding removed under namespace 0, as UDP bindings are
inet_csk_listen_stop_pb_nons(sk, lport) == [netns |-> 0, port |-> lport]

\* lines 371-373
inet_csk_listen_stop_pb(sk, lport) ==
    [netns |-> get_netns_from_sock(sk), port |-> lport]

inet_csk_listen_stop_enter(sk) ==
    /\ IF lport_unset(read_sport(sk))
       THEN /\ ev' = BindEvent("inet_csk_listen_stop_enter", sk, None, port_bindings)
            /\ UNCHANGED port_bindings
       ELSE /\ port_bindings' =
                remove_port_bind(inet_csk_listen_stop_pb(sk, read_sport(sk)), port_bindings)
            /\ ev' = BindEvent("inet_csk_listen_stop_enter", sk,
                                 inet_csk_listen_stop_pb(sk, read_sport(sk)), port_bindings)
    /\ out' = <<>>
    /\ UNCHANGED <<udp_port_bindings, udp_owners, resolveVars, udpVars, fdVars>>

\* lines 385-392
udp_destroy_sock_lport(r, sk) == IF r.ret # 0 THEN r.t.sport ELSE read_sport(sk)

\* lines 402-404
udp_destroy_sock_pb(sk, lport) == [netns |-> 0, port |-> lport]

udp_destroy_sock(pid_tgid, sk) ==
    /\ \E r \in {read_conn_tuple(sk, pid_tgid, CONN_TYPE_UDP)} :
        /\ out' = IF r.ret # 0 THEN <<cleanup_conn(r.t, sk)>> ELSE <<>>
        /\ IF lport_unset(udp_destroy_sock_lport(r, sk))
           THEN /\ ev' = BindEvent("udp_destroy_sock", sk, None, udp_port_bindings)
                /\ UNCHANGED udp_port_bindings
           ELSE /\ udp_port_bindings' =
                    remove_port_bind(udp_destroy_sock_pb(sk, udp_destroy_sock_lport(r, sk)),
                                     udp_port_bindings)
                /\ ev' = BindEvent("udp_destroy_sock", sk,
                                     udp_destroy_sock_pb(sk, udp_destroy_sock_lport(r, sk)),
                                     udp_port_bindings)
    /\ udp_owners' = udp_owners \ {sk}
    /\ UNCHANGED <<port_bindings, resolveVars, udpVars, fdVars>>

\* type & SOCK_DGRAM, for the 4-bit socket types
type_and_SOCK_DGRAM(type) == IF (type \div 2) % 2 = 1 THEN SOCK_DGRAM ELSE 0

\* a null struct sockaddr pointer
NullSockaddr == [sa_family |-> NULL]

\* the struct sockaddr a bind call is given
Sockaddrs ==
    {[sa_family |-> f, port |-> Be16Raw(p)] :
        f \in {AF_INET, AF_INET6, AF_UNIX}, p \in {0, 53}}

\* lines 435-446
sys_exit_bind_port(sock, addr) ==
    IF bpf_ntohs(IF addr.sa_family \in {AF_INET, AF_INET6} THEN addr.port ELSE 0) = 0
    THEN read_sport(sock)
    ELSE bpf_ntohs(addr.port)

\* the binding recorded under the socket's namespace
sys_exit_bind_pb_netns(sock, sin_port) ==
    [netns |-> get_netns_from_sock(sock), port |-> sin_port]

\* the record of a bind exit: its arguments as well
BindExitEvent(sock, addr, rc, pb, map) ==
    [name |-> "sys_exit_bind", sk |-> sock, addr |-> addr, rc |-> rc,
     pb |-> pb, found |-> pb \in map]

\* lines 452-454
sys_exit_bind_pb(sock, sin_port) == [netns |-> 0, port |-> sin_port]

sys_exit_bind(sock, addr, rc) ==
    /\ IF \/ rc # 0
          \/ type_and_SOCK_DGRAM(sock_attr(sock).type) = 0
          \/ addr = NullSockaddr
       THEN /\ ev' = BindExitEvent(sock, addr, rc, None, udp_port_bindings)
            /\ UNCHANGED <<udp_port_bindings, udp_owners>>
       ELSE IF lport_unset(sys_exit_bind_port(sock, addr))
       THEN /\ ev' = BindExitEvent(sock, addr, rc, None, udp_port_bindings)
            /\ UNCHANGED <<udp_port_bindings, udp_owners>>
       ELSE /\ udp_port_bindings' =
                add_port_bind(sys_exit_bind_pb(sock, sys_exit_bind_port(sock, addr)),
                              udp_port_bindings)
            /\ ev' = BindExitEvent(sock, addr, rc,
                                     sys_exit_bind_pb(sock, sys_exit_bind_port(sock, addr)),
                                     udp_port_bindings)
            /\ udp_owners' =
                    IF /\ sock_attr(sock).type = SOCK_DGRAM
                       /\ sys_exit_bind_port(sock, addr) = sock_attr(sock).sk_num
                       /\ sys_exit_bind_pb(sock, sys_exit_bind_port(sock, addr))
                                \in udp_port_bindings'
                    THEN udp_owners \cup {sock}
                    ELSE udp_owners
    /\ out' = <<>>
    /\ UNCHANGED <<port_bindings, resolveVars, udpVars, fdVars>>

inet_bind_exit(sock, uaddr, rc) == sys_exit_bind(sock, uaddr, rc)

inet6_bind_exit(sock, uaddr, rc) == sys_exit_bind(sock, uaddr, rc)

-----------------------------------------------------------------------------
(* Data transfer: fexit/tcp_sendmsg, fexit/tcp_recvmsg, fexit/udp_recvmsg  *)
(* and fexit/udpv6_recvmsg                                                 *)

MSG_PEEK == 2

\* the return code is taken for success
ret_is_error_never(ret) == FALSE

\* lines 109, 133, 236: the operation returned an error code
ret_is_error(ret) == ret < 0

\* tcp-stats.h: the segment counters of the socket
get_tcp_segment_counts(sk) == [packets_in |-> 3, packets_out |-> 4]

\* the record of a data-transfer exit: its return code and whether the
\* handler went on to resolve a tuple
MsgEvent(name, ret, resolved) == [name |-> name, ret |-> ret, resolved |-> resolved]

tcp_sendmsg_exit(pid_tgid, sk, sent) ==
    /\ IF ret_is_error(sent)
       THEN /\ out' = <<>>
            /\ ev' = MsgEvent("tcp_sendmsg_exit", sent, FALSE)
       ELSE \E r \in {read_conn_tuple(sk, pid_tgid, CONN_TYPE_TCP)} :
            /\ out' = IF r.ret = 0 THEN <<>>
                      ELSE <<handle_tcp_stats(r.t, sk, 0),
                             handle_message(r.t, sent, 0, "CONN_DIRECTION_UNKNOWN",
                                            get_tcp_segment_counts(sk).packets_out,
                                            get_tcp_segment_counts(sk).packets_in,
                                            "PACKET_COUNT_ABSOLUTE", sk)>>
            /\ ev' = MsgEvent("tcp_sendmsg_exit", sent, TRUE)
    /\ UNCHANGED <<resolveVars, udpVars, fdVars, bindVars>>

\* tcp-recv.h
handle_tcp_recv(pid_tgid, sk, recv) ==
    \E r \in {read_conn_tuple(sk, pid_tgid, CONN_TYPE_TCP)} :
        out' = IF r.ret = 0 THEN <<>>
               ELSE <<handle_tcp_stats(r.t, sk, 0),
                      handle_message(r.t, 0, recv, "CONN_DIRECTION_UNKNOWN",
                                     get_tcp_segment_counts(sk).packets_out,
                                     get_tcp_segment_counts(sk).packets_in,
                                     "PACKET_COUNT_ABSOLUTE", sk)>>

tcp_recvmsg_exit(pid_tgid, sk, copied) ==
    /\ IF ret_is_error(copied)
       THEN /\ out' = <<>>
            /\ ev' = MsgEvent("tcp_recvmsg_exit", copied, FALSE)
       ELSE /\ handle_tcp_recv(pid_tgid, sk, copied)
            /\ ev' = MsgEvent("tcp_recvmsg_exit", copied, TRUE)
    /\ UNCHANGED <<resolveVars, udpVars, fdVars, bindVars>>

\* flags & MSG_PEEK, for flags below 256
flags_and_MSG_PEEK(flags) == IF (flags \div 2) % 2 = 1 THEN MSG_PEEK ELSE 0

\* the struct msghdr of a receive: none, one without msg_name, one naming
\* the IPv4 peer 10.0.0.2:8080
NullMsghdr == [msg_name |-> NullSockaddr]

Msghdrs ==
    {NullMsghdr,
     [msg_name |-> [sa_family |-> AF_INET, addr |-> IP4_B, port |-> Be16Raw(8080)]]}

\* sock.h sockaddr_to_addr, for a sockaddr_in
sockaddr_to_addr(t, sa) ==
    [t EXCEPT !.daddr_l = Be32Raw(sa.addr), !.dport = bpf_ntohs(sa.port)]

\* lines 247-251
udp_recvmsg_tuple(msg) ==
    IF msg.msg_name # NullSockaddr THEN sockaddr_to_addr(ZeroTuple, msg.msg_name) ELSE ZeroTuple

handle_ret_udp_recvmsg(pid_tgid, sk, msg, copied, flags) ==
    /\ IF ret_is_error(copied) \/ flags_and_MSG_PEEK(flags) # 0
       THEN /\ out' = <<>>
            /\ ev' = MsgEvent("handle_ret_udp_recvmsg", copied, FALSE)
       ELSE \E r \in {read_conn_tuple_partial(udp_recvmsg_tuple(msg), sk, pid_tgid,
                                              CONN_TYPE_UDP)} :
            /\ out' = IF r.ret = 0 THEN <<>>
                      ELSE <<handle_message(r.t, 0, copied, "CONN_DIRECTION_UNKNOWN",
                                            0, 1, "PACKET_COUNT_NONE", sk)>>
            /\ ev' = MsgEvent("handle_ret_udp_recvmsg", copied, TRUE)
    /\ UNCHANGED <<resolveVars, udpVars, fdVars, bindVars>>

udp_recvmsg_exit(pid_tgid, sk, msg, flags, copied) ==
    handle_ret_udp_recvmsg(pid_tgid, sk, msg, copied, flags)

udpv6_recvmsg_exit(pid_tgid, sk, msg, flags, copied) ==
    handle_ret_udp_recvmsg(pid_tgid, sk, msg, copied, flags)

-----------------------------------------------------------------------------
(* Specifications *)

NoEvent == [name |-> "none"]

InitMaps ==
    /\ udp_send_skb_args = <<>>
    /\ udp_send_missed = 0
    /\ staged = [k \in PidTgids |-> None]
    /\ orphan = [k \in PidTgids |-> FALSE]
    /\ sock_by_pid_fd = <<>>
    /\ pid_fd_by_sock = <<>>
    /\ tcp_ongoing_connect_pid = <<>>
    /\ last_resolved = [key \in PidFds |-> None]
    /\ connecting = [sk \in ConnectSocks |-> None]
    /\ port_bindings = {}
    /\ udp_port_bindings = {}
    /\ udp_owners = {}
    /\ ev = NoEvent
    /\ out = <<>>

\* the programs loaded, every map empty
Init ==
    /\ rt = ZeroTuple
    /\ rfl = CHOOSE f \in Flowi4s : TRUE
    /\ rres = NoResult
    /\ InitMaps

\* flow-descriptor resolution on every sample tuple and flow descriptor
InitResolve ==
    /\ rt \in TupleInputs
    /\ rfl \in Flowi4s \cup Flowi6s
    /\ rres = NoResult
    /\ InitMaps

NextResolve == ResolveFlowi4 \/ ResolveFlowi6

SpecResolve == InitResolve /\ [][NextResolve]_vars

UdpSendEntry4 ==
    \E k \in PidTgids, c \in Cpus, sk \in UdpSocks, fl4 \in UdpFlowi4s :
        kprobe__udp_send_skb(k, c, sk, fl4)

UdpSendEntry6 ==
    \E k \in PidTgids, c \in Cpus, sk \in UdpSocks, fl6 \in UdpFlowi6s :
        kprobe__udp_v6_send_skb(k, c, sk, fl6)

UdpSendExit4 ==
    \E k \in PidTgids, c \in Cpus, sk \in UdpSocks, sent \in Sents :
        udp_sendmsg_exit(k, c, sk, sent)

UdpSendExit6 ==
    \E k \in PidTgids, c \in Cpus, sk \in UdpSocks, sent \in Sents :
        udpv6_sendmsg_exit(k, c, sk, sent)

NextUdp == UdpSendEntry4 \/ UdpSendEntry6 \/ UdpSendExit4 \/ UdpSendExit6

SpecUdp == Init /\ [][NextUdp]_vars

\* the UDP send path with one socket at the exits (the return value of the
\* exit's call and the thread are what the send exit depends on), and with
\* the first thread alone migrating between CPUs
CpusOf(pid_tgid) == IF pid_tgid = <<1, 1>> THEN Cpus ELSE {0}

SendEntry4 ==
    \E k \in PidTgids, sk \in UdpSocks, fl4 \in UdpFlowi4s : \E c \in CpusOf(k) :
        kprobe__udp_send_skb(k, c, sk, fl4)

SendEntry6 ==
    \E k \in PidTgids, fl6 \in UdpFlowi6s : \E c \in CpusOf(k) :
        kprobe__udp_v6_send_skb(k, c, "udp_unconn4", fl6)

SendExit ==
    \E k \in PidTgids, sent \in Sents : \E c \in CpusOf(k) :
        udp_sendmsg_exit(k, c, "udp_conn4", sent)

NextSend == SendEntry4 \/ SendEntry6 \/ SendExit

SpecSend == Init /\ [][NextSend]_vars

SockfdLookup ==
    \E k \in FdPidTgids, socket \in LookupSocks : \E fd \in FdsOf(k) :
        sockfd_lookup_light_exit(k, fd, socket)

TcpClose == \E k \in FdPidTgids, sk \in TcpSocks : tcp_close(k, sk)

DoSendfile ==
    \E k \in FdPidTgids, sent \in Sents : \E fd \in FdsOf(k) :
        do_sendfile_exit(k, fd, sent)

TcpConnect == \E k \in FdPidTgids, sk \in TcpSocks : tcp_connect(k, sk)

TcpFinishConnect == \E sk \in TcpSocks : tcp_finish_connect(sk)

NextFd == SockfdLookup \/ TcpClose \/ DoSendfile \/ TcpConnect \/ TcpFinishConnect

SpecFd == Init /\ [][NextFd]_vars

\* active opens alone, on three sockets
\* the descriptor index alone: lookups and closes
NextIndex == SockfdLookup \/ TcpClose

SpecIndex == Init /\ [][NextIndex]_vars

ConnConnect == \E k \in FdPidTgids, sk \in ConnectSocks : tcp_connect(k, sk)

ConnFinishConnect == \E sk \in ConnectSocks : tcp_finish_connect(sk)

ConnClose == \E k \in FdPidTgids, sk \in ConnectSocks : tcp_close(k, sk)

NextConnect == ConnConnect \/ ConnFinishConnect \/ ConnClose

SpecConnect == Init /\ [][NextConnect]_vars

\* the sockets accept returns, NULL when it failed
AcceptSocks == {NULL, "tcp_a", "tcp_b", "tcp_listen"}

ListenSocks == {"tcp_listen", "tcp_a", "tcp_b", "tcp_unbound"}

DestroySocks == {"udp_conn4", "udp_unconn4", "udp_ns8", "udp_unbound"}

\* the struct socket bind was called on
BindSocks == {"udp_conn4", "udp_ns8", "udp_unbound", "tcp_a", "raw_s", "seqpacket_s"}

\* 0, -EADDRINUSE
BindRcs == {0, -98}

InetCskAccept == \E k \in FdPidTgids, sk \in AcceptSocks : inet_csk_accept_exit(k, sk)

InetCskListenStop == \E sk \in ListenSocks : inet_csk_listen_stop_enter(sk)

UdpDestroySock == \E k \in FdPidTgids, sk \in DestroySocks : udp_destroy_sock(k, sk)

InetBind ==
    \E sock \in BindSocks, addr \in Sockaddrs \cup {NullSockaddr}, rc \in BindRcs :
        inet_bind_exit(sock, addr, rc)

Inet6Bind ==
    \E sock \in BindSocks, addr \in Sockaddrs \cup {NullSockaddr}, rc \in BindRcs :
        inet6_bind_exit(sock, addr, rc)

NextBind ==
    InetCskAccept \/ InetCskListenStop \/ UdpDestroySock \/ InetBind \/ Inet6Bind

SpecBind == Init /\ [][NextBind]_vars

\* MSG_DONTWAIT is 64
RecvFlags == {0, MSG_PEEK, 64, 66}

TcpSendmsgExit ==
    \E k \in FdPidTgids, sk \in TcpSocks, sent \in Sents : tcp_sendmsg_exit(k, sk, sent)

TcpRecvmsgExit ==
    \E k \in FdPidTgids, sk \in TcpSocks, copied \in Sents : tcp_recvmsg_exit(k, sk, copied)

UdpRecvmsgExit ==
    \E k \in FdPidTgids, sk \in UdpSocks, msg \in Msghdrs, flags \in RecvFlags,
       copied \in Sents : udp_recvmsg_exit(k, sk, msg, flags, copied)

Udpv6RecvmsgExit ==
    \E k \in FdPidTgids, sk \in UdpSocks, msg \in Msghdrs, flags \in RecvFlags,
       copied \in Sents : udpv6_recvmsg_exit(k, sk, msg, flags, copied)

\* the send and file-transfer paths of one thread next to the receive paths
MsgUdpSendEntry ==
    \E c \in Cpus, fl4 \in UdpFlowi4s : kprobe__udp_send_skb(<<1, 1>>, c, "udp_conn4", fl4)

MsgUdpSendExit ==
    \E c \in Cpus, sent \in Sents : udp_sendmsg_exit(<<1, 1>>, c, "udp_conn4", sent)

MsgSockfdLookup == sockfd_lookup_light_exit(<<1, 1>>, 3, "tcp_a")

MsgDoSendfile == \E sent \in Sents : do_sendfile_exit(<<1, 1>>, 3, sent)

NextMsg ==
    \/ TcpSendmsgExit \/ TcpRecvmsgExit \/ UdpRecvmsgExit \/ Udpv6RecvmsgExit
    \/ MsgUdpSendEntry \/ MsgUdpSendExit \/ MsgSockfdLookup \/ MsgDoSendfile

SpecMsg == Init /\ [][NextMsg]_vars

Next == NextResolve \/ NextUdp \/ NextFd \/ NextBind \/ NextMsg

Spec == Init /\ [][Next]_vars

-----------------------------------------------------------------------------
(* Properties of the UDP send bridge *)

\* C1. Stage/consume symmetry: a udp_sendmsg/udpv6_sendmsg exit with
\* sent > 0 for a thread whose last stage put tuple v in the pending table
\* forwards exactly one send observation carrying v and leaves no entry for
\* the thread; and a program run by another thread never changes or removes
\* the thread's entry.
C1_StageConsumeSymmetry ==
    [][/\ \A k \in PidTgids, c \in Cpus, sk \in UdpSocks, sent \in Sents :
            (handle_udp_send(k, c, sk, sent) /\ staged[k] # None /\ sent > 0)
                => /\ out' = <<handle_message(staged[k], sent, 0,
                                    "CONN_DIRECTION_UNKNOWN", 1, 0,
                                    "PACKET_COUNT_NONE", sk)>>
                   /\ k \notin DOMAIN udp_send_skb_args'
       /\ \A k2 \in PidTgids, c \in Cpus, sk \in UdpSocks :
            (\/ \E fl4 \in UdpFlowi4s : kprobe__udp_send_skb(k2, c, sk, fl4)
             \/ \E fl6 \in UdpFlowi6s : kprobe__udp_v6_send_skb(k2, c, sk, fl6)
             \/ \E sent \in Sents : handle_udp_send(k2, c, sk, sent))
                => \A k \in PidTgids \ {k2} :
                    /\ (k \in DOMAIN udp_send_skb_args') = (k \in DOMAIN udp_send_skb_args)
                    /\ k \in DOMAIN udp_send_skb_args
                         => udp_send_skb_args'[k] = udp_send_skb_args[k]
      ]_vars

\* C2. A UDP send exit for a thread with no staged entry forwards nothing,
\* changes no map and increments the miss counter.
C2_ExitMissCounts ==
    [][\A k \in PidTgids, c \in Cpus, sk \in UdpSocks, sent \in Sents :
            (handle_udp_send(k, c, sk, sent) /\ k \notin DOMAIN udp_send_skb_args)
                => /\ out' = <<>>
                   /\ udp_send_skb_args' = udp_send_skb_args
                   /\ udp_send_missed' = udp_send_missed + 1
      ]_vars

-----------------------------------------------------------------------------
(* Properties of flow-descriptor resolution *)

IsZeroAddr(h, l) == h = Zero64 /\ l = Zero64

\* field f of the input tuple, if it was set, is what the result holds
Kept(f, zero) == rt[f] # zero => rres.t[f] = rt[f]

\* the result went through the IPv4-mapped collapse
Collapsed ==
    /\ rfl.kind = "flowi6"
    /\ ~rres.t.metadata.v6

\* C3. Idempotent merge: resolving from a flow descriptor leaves every
\* address half and port that was nonzero in the input tuple unchanged,
\* the IPv4-mapped collapse apart.
C3_IdempotentMerge ==
    rres # NoResult =>
        /\ Kept("sport", 0)
        /\ Kept("dport", 0)
        /\ ~Collapsed =>
            /\ Kept("saddr_h", Zero64)
            /\ Kept("saddr_l", Zero64)
            /\ Kept("daddr_h", Zero64)
            /\ Kept("daddr_l", Zero64)

\* C4. Invalid-tuple rejection: a successful flow-descriptor resolution
\* yields a tuple whose source address, destination address, source port and
\* destination port are all nonzero.
C4_SuccessMeansValid ==
    (rres # NoResult /\ rres.ret = 1) =>
        /\ ~IsZeroAddr(rres.t.saddr_h, rres.t.saddr_l)
        /\ ~IsZeroAddr(rres.t.daddr_h, rres.t.daddr_l)
        /\ rres.t.sport # 0
        /\ rres.t.dport # 0

\* an in6_addr of the form ::ffff:a.b.c.d, read off its bytes
BytesMapped(a) ==
    /\ \A i \in 1..10 : a[i] = 0
    /\ a[11] = 255
    /\ a[12] = 255

\* the IPv4 address embedded in the last four bytes of an in6_addr
EmbeddedIp4(a) == <<a[13], a[14], a[15], a[16]>>

\* the tuple's addresses before and after a resolution from a flowi6 that
\* supplied both of them
ResolvedFromFlowi6 ==
    /\ rres # NoResult
    /\ rres.ret = 1
    /\ rfl.kind = "flowi6"
    /\ IsZeroAddr(rt.saddr_h, rt.saddr_l)
    /\ IsZeroAddr(rt.daddr_h, rt.daddr_l)

\* C5. IPv4-mapped collapse: a tuple resolved from a flowi6 whose addresses
\* are both IPv4-mapped has family IPv4, zero high halves and, as low halves,
\* the embedded IPv4 addresses as a flowi4 would have supplied them; from a
\* flowi6 whose addresses are both not IPv4-mapped it has family IPv6 and the
\* halves of the flow descriptor's addresses.
C5_Ipv4MappedCollapse ==
    ResolvedFromFlowi6 =>
        /\ (BytesMapped(rfl.saddr) /\ BytesMapped(rfl.daddr)) =>
            /\ ~rres.t.metadata.v6
            /\ rres.t.saddr_h = Zero64
            /\ rres.t.daddr_h = Zero64
            /\ rres.t.saddr_l = Be32Raw(EmbeddedIp4(rfl.saddr))
            /\ rres.t.daddr_l = Be32Raw(EmbeddedIp4(rfl.daddr))
        /\ (~BytesMapped(rfl.saddr) /\ ~BytesMapped(rfl.daddr)) =>
            /\ rres.t.metadata.v6
            /\ rres.t.saddr_h = LE64(rfl.saddr, 1)
            /\ rres.t.saddr_l = LE64(rfl.saddr, 9)
            /\ rres.t.daddr_h = LE64(rfl.daddr, 1)
            /\ rres.t.daddr_l = LE64(rfl.daddr, 9)

\* ::ffff:10.0.0.1 -> ::ffff:10.0.0.2 resolved to 10.0.0.1 -> 10.0.0.2
C5_Witness ==
    /\ ResolvedFromFlowi6
    /\ rfl.saddr = In6Mapped(IP4_A)
    /\ rfl.daddr = In6Mapped(IP4_B)
    /\ rres.t.saddr_l = Be32Raw(IP4_A)
    /\ rres.t.daddr_l = Be32Raw(IP4_B)
    /\ ~rres.t.metadata.v6


-----------------------------------------------------------------------------
(* Descriptor index *)

\* C6. Descriptor index pairing: in every reachable state the entry
\* (process, descriptor) -> socket is in sock_by_pid_fd exactly when the
\* entry socket -> (process, descriptor) is in pid_fd_by_sock.
C6_IndexPairing ==
    \A key \in PidFds, s \in LookupSocks :
        (key \in DOMAIN sock_by_pid_fd /\ sock_by_pid_fd[key] = s)
            <=> (s \in DOMAIN pid_fd_by_sock /\ pid_fd_by_sock[s] = key)

\* C7. A do_sendfile exit that forwards an observation attributes it to the
\* socket most recently resolved for its (process, out descriptor) pair.
C7_SendfileAttribution ==
    [][(ev'.name = "do_sendfile_exit" /\ out' # <<>>)
          => out'[1].sk = last_resolved[ev'.key]]_vars

\* C8. After tcp_close for socket s the staged connect mapping for s is
\* absent and neither direction of the descriptor index refers to s; the
\* close is finalized exactly when the tuple of s resolves.
C8_CloseClearsSocket ==
    [][ev'.name = "tcp_close"
          => /\ ev'.sk \notin DOMAIN tcp_ongoing_connect_pid'
             /\ ev'.sk \notin DOMAIN pid_fd_by_sock'
             /\ \A key \in DOMAIN sock_by_pid_fd' : sock_by_pid_fd'[key] # ev'.sk
             /\ \A k \in FdPidTgids :
                    read_conn_tuple(ev'.sk, k, CONN_TYPE_TCP).ret = 0 <=> out' = <<>>]_vars

-----------------------------------------------------------------------------
(* Port bindings *)

\* the binding a socket's own namespace and local port name
OwnBinding(sk) ==
    [netns |-> sock_attr(sk).netns, port |-> sock_attr(sk).sk_num]

IdempotentBind(pb, set, set2) ==
    IF pb \in set THEN set2 = set
    ELSE IF Cardinality(set) < MapMaxEntries THEN set2 = set \cup {pb}
    ELSE set2 = set

IdempotentUnbind(pb, set, set2) ==
    /\ pb \notin set2
    /\ IF pb \in set THEN set2 = set \ {pb} ELSE set2 = set

\* C9. Binding idempotence, for either binding set: a bind of a pair that
\* is already bound leaves the set as it was, with that pair in it once; a
\* bind of a new pair adds just that pair (nothing when the set is full);
\* an unbind of a pair that is not bound changes nothing.  A listen-stop
\* for a TCP socket removes the pair (namespace, port) of that socket,
\* which an accept bound, and a second listen-stop changes nothing.
C9_BindingIdempotence ==
    [][/\ (ev'.name = "inet_csk_accept_exit" /\ ev'.pb # None)
            => IdempotentBind(ev'.pb, port_bindings, port_bindings')
       /\ (ev'.name = "sys_exit_bind" /\ ev'.pb # None)
            => IdempotentBind(ev'.pb, udp_port_bindings, udp_port_bindings')
       /\ (ev'.name = "udp_destroy_sock" /\ ev'.pb # None)
            => IdempotentUnbind(ev'.pb, udp_port_bindings, udp_port_bindings')
       /\ (ev'.name = "inet_csk_listen_stop_enter" /\ sock_attr(ev'.sk).sk_num # 0)
            => IdempotentUnbind(OwnBinding(ev'.sk), port_bindings, port_bindings')
       /\ (ev'.name \in {"inet_csk_accept_exit", "inet_csk_listen_stop_enter"}
             /\ ev'.pb = None)
            => port_bindings' = port_bindings
       /\ (ev'.name \in {"sys_exit_bind", "udp_destroy_sock"} /\ ev'.pb = None)
            => udp_port_bindings' = udp_port_bindings]_vars

\* a listen-stop for the socket listening on (7, 8080) has removed the pair
\* that the accept of a connection to that port had bound
C9_Witness ==
    /\ ev.name = "inet_csk_listen_stop_enter"
    /\ ev.sk = "tcp_listen"
    /\ ev.found
    /\ ev.pb = [netns |-> 7, port |-> 8080]
    /\ ev.pb \notin port_bindings

\* C10. The binding sets are not conflated: accept and listen-stop leave
\* udp_port_bindings alone and key port_bindings by the socket's own
\* namespace; bind exit and udp_destroy_sock leave port_bindings alone; and
\* every entry of udp_port_bindings has namespace 0.
C10_BindingSetsSeparate ==
    [][/\ ev'.name \in {"inet_csk_accept_exit", "inet_csk_listen_stop_enter"}
            => /\ udp_port_bindings' = udp_port_bindings
               /\ ev'.pb # None => ev'.pb.netns = sock_attr(ev'.sk).netns
               /\ \A pb \in (port_bindings' \ port_bindings)
                              \cup (port_bindings \ port_bindings') :
                      pb.netns = sock_attr(ev'.sk).netns
       /\ ev'.name \in {"sys_exit_bind", "udp_destroy_sock"}
            => port_bindings' = port_bindings
       /\ \A pb \in udp_port_bindings' : pb.netns = 0]_vars

\* a bind exit for a UDP socket of namespace 8 has recorded its port under
\* namespace 0 while port_bindings holds a TCP port under its namespace
C10_Witness ==
    /\ ev.name = "sys_exit_bind"
    /\ ev.sk = "udp_ns8"
    /\ ~ev.found
    /\ ev.pb = [netns |-> 0, port |-> 5000]
    /\ ev.pb \in udp_port_bindings
    /\ [netns |-> 8, port |-> 8080] \in port_bindings


\* the port a bind exit finds in the address structure is zero
AddrPortZero(addr) ==
    \/ addr = NullSockaddr
    \/ addr.sa_family \notin {AF_INET, AF_INET6}
    \/ addr.port = 0

\* C11. A binding event whose port is still zero after all fallbacks (bind
\* exit: the address structure's port, then the socket's; listen-stop: the
\* socket's; udp_destroy_sock: the resolved tuple's source port, else the
\* socket's) is dropped: neither binding set changes and nothing is
\* forwarded.
C11_ZeroPortDropped ==
    [][(\/ /\ ev'.name \in {"inet_csk_listen_stop_enter", "udp_destroy_sock"}
           /\ sock_attr(ev'.sk).sk_num = 0
        \/ /\ ev'.name = "sys_exit_bind"
           /\ AddrPortZero(ev'.addr)
           /\ sock_attr(ev'.sk).sk_num = 0)
          => /\ port_bindings' = port_bindings
             /\ udp_port_bindings' = udp_port_bindings
             /\ out' = <<>>]_vars

\* a successful bind exit of a datagram socket with sin_port = 0 and no
\* port on the socket was dropped while a UDP port is bound
C11_Witness ==
    /\ ev.name = "sys_exit_bind"
    /\ ev.sk = "udp_unbound"
    /\ ev.rc = 0
    /\ ev.addr.sa_family = AF_INET
    /\ ev.addr.port = 0
    /\ ev.pb = None
    /\ udp_port_bindings # {}


-----------------------------------------------------------------------------
(* Data transfer *)

\* C12. An exit whose operation returned a negative code forwards no
\* observation and does not go on to resolve a tuple: tcp_sendmsg (sent < 0),
\* tcp_recvmsg (copied < 0), udp_recvmsg and udpv6_recvmsg (copied < 0),
\* udp_sendmsg and udpv6_sendmsg (sent < 0), do_sendfile (sent < 0).
C12_ErrorCodeSkipped ==
    [][/\ \A k \in FdPidTgids, sk \in TcpSocks, ret \in Sents :
            ((tcp_sendmsg_exit(k, sk, ret) \/ tcp_recvmsg_exit(k, sk, ret)) /\ ret < 0)
                => (out' = <<>> /\ ~ev'.resolved)
       /\ \A k \in FdPidTgids, sk \in UdpSocks, msg \in Msghdrs, flags \in RecvFlags,
             ret \in Sents :
            (handle_ret_udp_recvmsg(k, sk, msg, ret, flags) /\ ret < 0)
                => (out' = <<>> /\ ~ev'.resolved)
       /\ \A k \in PidTgids, c \in Cpus, sk \in UdpSocks, ret \in Sents :
            (handle_udp_send(k, c, sk, ret) /\ ret < 0)
                => (out' = <<>> /\ ~ev'.resolved)
       /\ \A k \in FdPidTgids, fd \in {3, 4}, ret \in Sents :
            (do_sendfile_exit(k, fd, ret) /\ ret < 0)
                => (out' = <<>> /\ ~ev'.resolved)]_vars

\* a tcp_sendmsg that failed was skipped while the thread has a UDP send
\* staged and its descriptor 3 is indexed
C12_Witness ==
    /\ ev.name = "tcp_sendmsg_exit"
    /\ ev.ret < 0
    /\ ~ev.resolved
    /\ out = <<>>
    /\ <<1, 1>> \in DOMAIN udp_send_skb_args
    /\ <<1, 3>> \in DOMAIN sock_by_pid_fd


-----------------------------------------------------------------------------
(* Pending UDP sends *)

\* C13. An entry staged by a udp_send_skb whose call reaches no matching
\* send exit stays in udp_send_skb_args until a later stage under the same
\* thread identity overwrites it, and no observation is forwarded from it:
\* no later program run, by the same or another thread, removes the entry or
\* forwards a send observation out of it.
C13_LeakedEntryStays ==
    [][\A k \in PidTgids :
          (k \in DOMAIN udp_send_skb_args /\ orphan[k])
              => /\ k \in DOMAIN udp_send_skb_args'
                 /\ \A c \in Cpus, sk \in UdpSocks, sent \in Sents :
                        handle_udp_send(k, c, sk, sent) => out' = <<>>]_vars


-----------------------------------------------------------------------------
(* Active opens *)

\* a zero-byte "outgoing established" observation among the calls made
OutgoingEstablished(calls) ==
    {i \in DOMAIN calls :
        /\ calls[i].call = "handle_message"
        /\ calls[i].direction = "CONN_DIRECTION_OUTGOING"}

\* C14. tcp_finish_connect forwards a zero-byte "outgoing established"
\* observation for socket s only if a tcp_connect for s came earlier with no
\* completion or close of s since; it forwards at most one; the
\* observation's pid is that of the thread that called connect; and the
\* staged mapping is gone afterwards even when the tuple did not resolve.  No
\* other program forwards such an observation.
C14_ActiveOpen ==
    [][/\ ev'.name = "tcp_finish_connect"
            => /\ ev'.sk \notin DOMAIN tcp_ongoing_connect_pid'
               /\ Cardinality(OutgoingEstablished(out')) <= 1
               /\ \A i \in OutgoingEstablished(out') :
                    /\ connecting[ev'.sk] # None
                    /\ out'[i].t.pid = connecting[ev'.sk][1]
                    /\ out'[i].sk = ev'.sk
                    /\ out'[i].sent_bytes = 0
                    /\ out'[i].recv_bytes = 0
       /\ ev'.name # "tcp_finish_connect" => OutgoingEstablished(out') = {}]_vars

\* the handshake of tcp_a, which a thread of process 2 had connected,
\* completed: the observation carries pid 2 and the mapping is gone
C14_Witness ==
    /\ ev.name = "tcp_finish_connect"
    /\ ev.sk = "tcp_a"
    /\ OutgoingEstablished(out) # {}
    /\ out[2].t.pid = 2
    /\ "tcp_a" \notin DOMAIN tcp_ongoing_connect_pid
    /\ "tcp_b" \in DOMAIN tcp_ongoing_connect_pid


-----------------------------------------------------------------------------
(* The pending-send table at capacity *)

StageNames == {"kprobe__udp_send_skb", "kprobe__udp_v6_send_skb"}

TableFull == Cardinality(DOMAIN udp_send_skb_args) = UdpArgsMaxEntries

OthersUnchanged(k) ==
    \A k2 \in PidTgids \ {k} :
        /\ (k2 \in DOMAIN udp_send_skb_args') = (k2 \in DOMAIN udp_send_skb_args)
        /\ k2 \in DOMAIN udp_send_skb_args
                => udp_send_skb_args'[k2] = udp_send_skb_args[k2]

-----------------------------------------------------------------------------
(* Bind exits by socket type *)

\* C16. A bind exit changes the UDP binding set only when rc = 0 and the
\* socket's type is SOCK_DGRAM: for a socket of any other type (stream, raw,
\* seqpacket, ...) and for any nonzero rc the set is left as it was.
C16_DatagramOnly ==
    [][(/\ ev'.name = "sys_exit_bind"
        /\ \/ ev'.rc # 0
           \/ sock_attr(ev'.sk).type # SOCK_DGRAM)
          => udp_port_bindings' = udp_port_bindings]_vars

-----------------------------------------------------------------------------
(* Registration in the descriptor index *)

\* the socket is a stream socket of family IPv4 or IPv6
StreamInet(socket) ==
    /\ sock_attr(socket).type = SOCK_STREAM
    /\ sock_attr(socket).family \in {AF_INET, AF_INET6}

\* C17. First writer wins: a descriptor lookup for a (process, descriptor)
\* that sock_by_pid_fd already holds leaves both index maps as they were,
\* whatever socket it returned; and a lookup that returned a socket that is
\* not a stream socket of family IPv4 or IPv6 never changes either map.
C17_FirstWriterWins ==
    [][\A k \in FdPidTgids, socket \in LookupSocks : \A fd \in FdsOf(k) :
          (/\ sockfd_lookup_light_exit(k, fd, socket)
           /\ \/ <<k[1], fd>> \in DOMAIN sock_by_pid_fd
              \/ ~StreamInet(socket))
              => /\ sock_by_pid_fd' = sock_by_pid_fd
                 /\ pid_fd_by_sock' = pid_fd_by_sock]_vars

\* descriptor 3 of process 1 is indexed to tcp_a although the last lookup of
\* it returned tcp_listen, which is indexed nowhere
C17_Witness ==
    /\ ev.name = "sockfd_lookup_light_exit"
    /\ <<1, 3>> \in DOMAIN sock_by_pid_fd
    /\ sock_by_pid_fd[<<1, 3>>] = "tcp_a"
    /\ last_resolved[<<1, 3>>] = "tcp_listen"
    /\ "tcp_listen" \notin DOMAIN pid_fd_by_sock

-----------------------------------------------------------------------------
(* UDP send exits *)

\* the calls are one send observation of `sent` bytes on socket sk: one
\* packet out, none in, no packet counts supplied
SendObservation(calls, sent, sk) ==
    /\ Len(calls) = 1
    /\ calls[1].call = "handle_message"
    /\ calls[1].sent_bytes = sent
    /\ calls[1].recv_bytes = 0
    /\ calls[1].packets_out = 1
    /\ calls[1].packets_in = 0
    /\ calls[1].segs_type = "PACKET_COUNT_NONE"
    /\ calls[1].sk = sk

\* C18. A UDP send exit that finds an element for its thread in
\* udp_send_skb_args removes it whatever the return value, so that no
\* element remains for the thread, and forwards a send observation
\* (sent bytes, one packet out, no packet counts) if and only if sent > 0.
C18_ExitConsumes ==
    [][ev'.name = "handle_udp_send"
          => \A k \in PidTgids, c \in Cpus, sk \in UdpSocks, sent \in Sents :
                (/\ k \in DOMAIN udp_send_skb_args
                 /\ handle_udp_send(k, c, sk, sent))
                    => /\ k \notin DOMAIN udp_send_skb_args'
                       /\ IF sent > 0
                          THEN SendObservation(out', sent, sk)
                          ELSE out' = <<>>]_vars

\* an exit of the first process forwarded 200 bytes with the staged tuple,
\* and neither of its threads has an element left while the other process's
\* thread still has one
C18_Witness ==
    /\ ev.name = "handle_udp_send"
    /\ SendObservation(out, 200, "udp_conn4")
    /\ out[1].t.pid = 1
    /\ out[1].t.dport = 8080
    /\ <<1, 1>> \notin DOMAIN udp_send_skb_args
    /\ <<1, 2>> \notin DOMAIN udp_send_skb_args
    /\ <<2, 3>> \in DOMAIN udp_send_skb_args

-----------------------------------------------------------------------------
(* UDP send entries *)

\* the destination port the staged tuple must carry: the socket's if the
\* socket has a peer, else the flow descriptor's; 0 if neither has one
ExpectedDport(sk, fl_dport) ==
    IF sock_attr(sk).dport # 0 THEN sock_attr(sk).dport ELSE bpf_ntohs(fl_dport)

\* what a send entry by thread k on CPU c leaves behind, given the
\* destination port its resolution must end with
StageOutcome(k, c, dport) ==
    /\ IF dport = 0
       THEN /\ udp_send_missed' = udp_send_missed + 1
            /\ udp_send_skb_args' = udp_send_skb_args
       ELSE /\ udp_send_missed' = udp_send_missed
            /\ OthersUnchanged(k)
            /\ IF k \in DOMAIN udp_send_skb_args'
               THEN /\ udp_send_skb_args'[k][c].dport = dport
                    /\ udp_send_skb_args'[k][c].pid = k[1]
                    /\ \A c2 \in Cpus \ {c} :
                          udp_send_skb_args'[k][c2] =
                              IF k \in DOMAIN udp_send_skb_args
                              THEN udp_send_skb_args[k][c2] ELSE ZeroTuple
               ELSE /\ TableFull
                    /\ udp_send_skb_args' = udp_send_skb_args
    /\ out' = <<>>
    /\ UNCHANGED <<sock_by_pid_fd, pid_fd_by_sock, tcp_ongoing_connect_pid,
                   port_bindings, udp_port_bindings>>

-----------------------------------------------------------------------------
(* UDP bindings and the sockets that own them *)

\* C20. A UDP port added to udp_port_bindings by a successful bind exit of
\* a datagram socket stays in the set for as long as that socket has not
\* been destroyed: destroying another socket, whatever its port or
\* namespace, does not remove it.
C20_BindingOutlivesOthers ==
    \A sk \in udp_owners :
        [netns |-> 0, port |-> sock_attr(sk).sk_num] \in udp_port_bindings

====
